---- MODULE Spec2Model ----
(***************************************************************************)
(* Model of store/postgres/src/detail.rs: the conversions from raw rows of *)
(* the deployment metadata tables to status and entity objects, the bulk   *)
(* status query, the registration of the running build's version and the  *)
(* discovery of the enclosing git repository.                              *)
(*                                                                         *)
(* Conventions.  Option<T> is a sequence of length at most one: <<>> is    *)
(* None and <<x>> is Some(x).  The outcome of a call is a record           *)
(* [kind, val, err]: kind "Ok" carries val = <<value>>, kind "Err" carries *)
(* err = <<error>>, kind "Panic" (the call unwinds and returns nothing)    *)
(* carries err = <<reason>>.  Integers wider than TLC's are sequences of   *)
(* base-2^16 limbs, least significant first, with no leading zero limb,    *)
(* so that a u64 is at most four limbs and 2^64 - 1 is four limbs 65535.   *)
(***************************************************************************)
EXTENDS Integers, Sequences, FiniteSets, TLC

VARIABLES
    hash, number, blockResult,                         \* a call of block()
    errorRow, errorResult,                             \* SubgraphError::try_from
    detailRow, attachedError, siteList, infoResult,    \* status::Info::try_from
    deploymentTable, errorTable, callSites, statuses,  \* deployment_statuses
    storedEntity, entityResult,                        \* SubgraphDeploymentEntity::try_from
    versionTable, idSequence, callers,                 \* GraphNodeVersion::create_or_get
    markers, startPath, walk                           \* find_git_repository_path

blockVars    == <<hash, number, blockResult>>
errorVars    == <<errorRow, errorResult>>
infoVars     == <<detailRow, attachedError, siteList, infoResult>>
statusVars   == <<deploymentTable, errorTable, callSites, statuses>>
entityVars   == <<storedEntity, entityResult>>
versionVars  == <<versionTable, idSequence, callers>>
gitVars      == <<markers, startPath, walk>>
vars == <<blockVars, errorVars, infoVars, statusVars, entityVars, versionVars, gitVars>>

(***************************************************************************)
(* Option and Result.                                                      *)
(***************************************************************************)
None == <<>>
Some(x) == <<x>>
IsSome(o) == Len(o) = 1
IsNone(o) == Len(o) = 0
Unwrap(o) == o[1]

Ok(v)      == [kind |-> "Ok",    val |-> <<v>>, err |-> <<>>]
Err(e)     == [kind |-> "Err",   val |-> <<>>,  err |-> <<e>>]
Panic(why) == [kind |-> "Panic", val |-> <<>>,  err |-> <<why>>]
NotCalled  == [kind |-> "NotCalled", val |-> <<>>, err |-> <<>>]
IsOk(r)    == r.kind = "Ok"
IsErr(r)   == r.kind = "Err"
IsPanic(r) == r.kind = "Panic"
OkVal(r)   == r.val[1]
ErrVal(r)  == r.err[1]

\* constraint_violation!(...): StoreError::ConstraintViolation with the
\* message template and the values formatted into it.
ConstraintViolation(msg, subject, field) ==
    [variant |-> "ConstraintViolation", msg |-> msg, subject |-> subject, field |-> field]

(***************************************************************************)
(* Wide integers as limb sequences.                                        *)
(***************************************************************************)
LimbBase == 65536
U64Limbs == 4
H256Bytes == 32

RECURSIVE Normalize(_)
Normalize(s) ==
    IF Len(s) > 0 /\ s[Len(s)] = 0 THEN Normalize(SubSeq(s, 1, Len(s) - 1)) ELSE s

\* s * m + carry for a small m.
RECURSIVE MulSmall(_, _, _)
MulSmall(s, m, carry) ==
    IF Len(s) = 0
    THEN (IF carry = 0 THEN <<>> ELSE <<carry>>)
    ELSE LET p == s[1] * m + carry
         IN  <<p % LimbBase>> \o MulSmall(Tail(s), m, p \div LimbBase)

\* The quotient of s by a small m, truncated; limbs are consumed from the
\* most significant one down, rem being the running remainder.
RECURSIVE DivSmallFrom(_, _, _, _)
DivSmallFrom(s, m, i, rem) ==
    IF i = 0 THEN <<>>
    ELSE LET cur == rem * LimbBase + s[i]
         IN  DivSmallFrom(s, m, i - 1, cur % m) \o <<cur \div m>>

DivSmall(s, m) == Normalize(DivSmallFrom(s, m, Len(s), 0))

\* a < b, a = b on normalized limb sequences.
RECURSIVE LimbsLess(_, _)
LimbsLess(a, b) ==
    IF Len(a) # Len(b) THEN Len(a) < Len(b)
    ELSE IF Len(a) = 0 THEN FALSE
    ELSE IF a[Len(a)] # b[Len(b)] THEN a[Len(a)] < b[Len(b)]
    ELSE LimbsLess(SubSeq(a, 1, Len(a) - 1), SubSeq(b, 1, Len(b) - 1))

LimbsLeq(a, b) == a = b \/ LimbsLess(a, b)

U64Max == [i \in 1..U64Limbs |-> LimbBase - 1]

(***************************************************************************)
(* BigDecimal: the value (-1)^neg * mag * 10^(-scale).  Zero has no sign.  *)
(***************************************************************************)
BigDecimal(neg, mag, scale) == [neg |-> neg, mag |-> mag, scale |-> scale]

\* BigDecimal::with_scale(0).int_val: digits after the point are cut off
\* (a division by a power of ten), a negative scale multiplies.
RECURSIVE WithScaleZero(_, _)
WithScaleZero(mag, scale) ==
    IF mag = <<>> THEN <<>>
    ELSE IF scale > 0 THEN WithScaleZero(DivSmall(mag, 10), scale - 1)
    ELSE IF scale < 0 THEN WithScaleZero(MulSmall(mag, 10, 0), scale + 1)
    ELSE mag

\* BigInt::to_u64 of a non-negative integer: Some when it has at most 64 bits.
FitsU64(mag) == Len(mag) <= U64Limbs

\* A conversion that forgets the sign: a negative value converts like its
\* magnitude.
ToU64IgnoringSign(d) ==
    LET int == WithScaleZero(d.mag, d.scale)
    IN  IF FitsU64(int) THEN Some(int) ELSE None

\* ToPrimitive::to_u64 for BigDecimal: None for a negative value, Some(0)
\* for zero, and otherwise the integer part when it fits 64 bits.
ToU64(d) ==
    IF d.mag = <<>> THEN Some(<<>>)
    ELSE IF d.neg THEN None
    ELSE LET int == WithScaleZero(d.mag, d.scale)
         IN  IF FitsU64(int) THEN Some(int) ELSE None

(***************************************************************************)
(* Block pointers.                                                         *)
(***************************************************************************)
\* H256::from_slice: copies exactly 32 bytes and panics on any other length.
H256FromSliceOk(bytes) == Len(bytes) = H256Bytes
H256FromSlice(bytes) == [h256 |-> bytes]

\* status::EthereumBlock::new(hash, number).
EthereumBlockNew(h, n) == [hash |-> h, number |-> n]

\* block(id, name, hash, number)
block(id, name, h, n) ==
    IF IsSome(h) /\ IsSome(n)
    THEN IF ~H256FromSliceOk(Unwrap(h))
         THEN Panic("H256::from_slice")
         ELSE LET u == ToU64(Unwrap(n))
              IN  IF IsNone(u)
                  THEN Err(ConstraintViolation("block number not representable as a u64", id, name))
                  ELSE Ok(Some(EthereumBlockNew(H256FromSlice(Unwrap(h)), Unwrap(u))))
    ELSE IF IsNone(h) /\ IsNone(n)
    THEN Ok(None)
    ELSE Err(ConstraintViolation("hash and number must both be null or both have a value", id, name))

(***************************************************************************)
(* Deployment identifiers.  Strings that are parsed are sequences of       *)
(* one-character strings.                                                  *)
(***************************************************************************)
IdentifierChars == {"Q", "m", "s", "g", "1", "2", "3", "_"}

\* DeploymentHash::new(s): Ok for a non-empty string of identifier
\* characters, and otherwise Err carrying the rejected string.
DeploymentHashValid(s) == Len(s) > 0 /\ \A i \in 1..Len(s) : s[i] \in IdentifierChars
DeploymentHashNew(s) == IF DeploymentHashValid(s) THEN Ok([hash |-> s]) ELSE Err(s)
\* DeploymentHash::as_str and to_string give back the wrapped string.
AsStr(d) == d.hash

\* Deployment keys, and strings DeploymentHash::new rejects: the empty one
\* and one with a space.
Sg1 == <<"s", "g", "1">>
Sg2 == <<"s", "g", "2">>
Sg3 == <<"s", "g", "3">>
Malformed == {<<>>, <<"s", "g", " ", "1">>}

(***************************************************************************)
(* Error rows.                                                             *)
(***************************************************************************)
Included(n) == [bound |-> "Included", at |-> <<n>>]
Excluded(n) == [bound |-> "Excluded", at |-> <<n>>]
Unbounded   == [bound |-> "Unbounded", at |-> <<>>]

\* block_range::first_block_in_range: the lower bound of the range when it
\* is a concrete value, None when the range is unbounded below.
first_block_in_range(range) ==
    IF range[1].bound = "Unbounded" THEN None ELSE Some(range[1].at[1])

\* `number as u64` for an i32: sign extension to 64 bits.
I32AsU64(n) ==
    LET ext == IF n < 0 THEN LimbBase - 1 ELSE 0
    IN  Normalize(<<n % LimbBase, (n \div LimbBase) % LimbBase, ext, ext>>)

\* BlockPtr::from((hash, number)).
BlockPtrFrom(h, n) == [hash |-> h, number |-> n]

\* A match that builds a pointer from the hash alone, at block 0 when the
\* range gives no number.
ErrorBlockPtrFromHash(block_number, block_hash) ==
    IF IsSome(block_hash)
    THEN Some(BlockPtrFrom(Unwrap(block_hash),
                           IF IsSome(block_number) THEN I32AsU64(Unwrap(block_number)) ELSE <<>>))
    ELSE None

\* The match on (block_number, block_hash) of SubgraphError::try_from.
ErrorBlockPtr(block_number, block_hash) ==
    IF IsSome(block_number) /\ IsSome(block_hash)
    THEN Some(BlockPtrFrom(Unwrap(block_hash), I32AsU64(Unwrap(block_number))))
    ELSE None

\* impl TryFrom<ErrorDetail> for SubgraphError
SubgraphErrorTryFrom(value) ==
    LET block_number == first_block_in_range(value.block_range)
    IN  IF IsSome(value.block_hash) /\ ~H256FromSliceOk(Unwrap(value.block_hash))
        THEN Panic("H256::from_slice")
        ELSE LET block_hash == IF IsSome(value.block_hash)
                               THEN Some(H256FromSlice(Unwrap(value.block_hash)))
                               ELSE None
                 block_ptr == ErrorBlockPtr(block_number, block_hash)
                 subgraph_id == DeploymentHashNew(value.subgraph_id)
             IN  IF IsErr(subgraph_id)
                 THEN Err(ConstraintViolation("invalid subgraph id in fatal error",
                                              ErrVal(subgraph_id), "subgraph_id"))
                 ELSE Ok([subgraph_id   |-> OkVal(subgraph_id),
                          message       |-> value.message,
                          block_ptr     |-> block_ptr,
                          handler       |-> value.handler,
                          deterministic |-> value.deterministic])

(***************************************************************************)
(* Deployment rows and status assembly.                                    *)
(***************************************************************************)
\* From<HealthType> for the status health: variant for variant.
HealthInto(h) ==
    CASE h = "Failed"    -> "failed"
      [] h = "Healthy"   -> "healthy"
      [] h = "Unhealthy" -> "unhealthy"

\* sites.iter().find(|site| site.deployment.as_str() == &deployment)
RECURSIVE FindSite(_, _)
FindSite(sites, deployment) ==
    IF Len(sites) = 0 THEN None
    ELSE IF AsStr(Head(sites).deployment) = deployment THEN Some(Head(sites))
    ELSE FindSite(Tail(sites), deployment)

\* error.map(|e| SubgraphError::try_from(e)).transpose()
FatalError(error) ==
    IF IsNone(error) THEN Ok(None)
    ELSE LET converted == SubgraphErrorTryFrom(Unwrap(error))
         IN  IF IsOk(converted) THEN Ok(Some(OkVal(converted))) ELSE converted

\* status::Info::try_from from the block pointers on, for the site found.
InfoForSite(detail, error, network) ==
    LET earliest_block == block(detail.deployment, "earliest_ethereum_block",
                                detail.earliest_ethereum_block_hash,
                                detail.earliest_ethereum_block_number)
    IN  IF ~IsOk(earliest_block) THEN earliest_block
        ELSE
    LET latest_block == block(detail.deployment, "latest_ethereum_block",
                              detail.latest_ethereum_block_hash,
                              detail.latest_ethereum_block_number)
    IN  IF ~IsOk(latest_block) THEN latest_block
        ELSE
    LET entity_count == ToU64(detail.entity_count)
    IN  IF IsNone(entity_count)
        THEN Err(ConstraintViolation("entityCount not representable as a u64",
                                     detail.deployment, "entity_count"))
        ELSE
    LET fatal_error == FatalError(error)
    IN  IF ~IsOk(fatal_error) THEN fatal_error
        ELSE Ok([subgraph         |-> detail.deployment,
                 synced           |-> detail.synced,
                 health           |-> HealthInto(detail.health),
                 fatal_error      |-> OkVal(fatal_error),
                 non_fatal_errors |-> <<>>,
                 chains           |-> <<[network          |-> network,
                                         chain_head_block |-> None,
                                         earliest_block   |-> OkVal(earliest_block),
                                         latest_block     |-> OkVal(latest_block)]>>,
                 entity_count     |-> Unwrap(entity_count),
                 node             |-> None])

MissingSite(deployment) == ConstraintViolation("missing site for subgraph", deployment, "site")

\* An assembler that looks the site up only once the row has converted.
InfoTryFromLateLookup(detail, error, sites) ==
    LET site == FindSite(sites, detail.deployment)
        info == InfoForSite(detail, error, IF IsSome(site) THEN Unwrap(site).network ELSE "")
    IN  IF ~IsOk(info) THEN info
        ELSE IF IsNone(site) THEN Err(MissingSite(detail.deployment))
        ELSE info

\* impl TryFrom<DetailAndError> for status::Info
InfoTryFrom(detail, error, sites) ==
    LET site == FindSite(sites, detail.deployment)
    IN  IF IsNone(site) THEN Err(MissingSite(detail.deployment))
        ELSE InfoForSite(detail, error, Unwrap(site).network)

(***************************************************************************)
(* The status query.  A table is the sequence of its rows in the storage's *)
(* row order.                                                              *)
(***************************************************************************)
\* The error rows a deployment row joins with: d::fatal_error.eq(e::id.nullable()).
RECURSIVE JoinedErrors(_, _)
JoinedErrors(detail, errors) ==
    IF Len(errors) = 0 THEN <<>>
    ELSE (IF IsSome(detail.fatal_error) /\ Unwrap(detail.fatal_error) = Head(errors).id
          THEN <<Head(errors)>> ELSE <<>>)
         \o JoinedErrors(detail, Tail(errors))

\* One deployment row of an inner join: no pair when no error row matches.
InnerJoinRow(detail, errors) ==
    LET matched == JoinedErrors(detail, errors)
    IN  [i \in 1..Len(matched) |-> [detail |-> detail, error |-> Some(matched[i])]]

\* One deployment row of d::table.left_outer_join(e::table.on(...)): a pair
\* per matching error row, and a pair without error when none matches.
LeftOuterJoinRow(detail, errors) ==
    LET matched == JoinedErrors(detail, errors)
    IN  IF Len(matched) = 0 THEN <<[detail |-> detail, error |-> None]>>
        ELSE [i \in 1..Len(matched) |-> [detail |-> detail, error |-> Some(matched[i])]]

RECURSIVE LeftOuterJoin(_, _)
LeftOuterJoin(details, errors) ==
    IF Len(details) = 0 THEN <<>>
    ELSE LeftOuterJoinRow(Head(details), errors) \o LeftOuterJoin(Tail(details), errors)

\* A query that forgets the restriction to the sites' keys.
FilterNothing(pairs, ids) == pairs

\* .filter(d::deployment.eq_any(&ids))
RECURSIVE FilterEqAny(_, _)
FilterEqAny(pairs, ids) ==
    IF Len(pairs) = 0 THEN <<>>
    ELSE (IF \E i \in 1..Len(ids) : ids[i] = Head(pairs).detail.deployment
          THEN <<Head(pairs)>> ELSE <<>>)
         \o FilterEqAny(Tail(pairs), ids)

\* .into_iter().map(|(detail, error)| status::Info::try_from(...)).collect():
\* the rows are assembled in order up to the first one that does not give a
\* status; acc holds the statuses so far.
RECURSIVE CollectInfos(_, _, _)
CollectInfos(pairs, sites, acc) ==
    IF Len(pairs) = 0 THEN Ok(acc)
    ELSE LET info == InfoTryFrom(Head(pairs).detail, Head(pairs).error, sites)
         IN  IF IsOk(info) THEN CollectInfos(Tail(pairs), sites, Append(acc, OkVal(info)))
             ELSE info

\* A query for "all deployments" that skips the assembly when no site is given.
EmptySitesAnswerNothing(details, errors, sites) == Ok(<<>>)

\* The branch of deployment_statuses for an empty site list.
StatusesOfAll(details, errors, sites) ==
    CollectInfos(LeftOuterJoin(details, errors), sites, <<>>)

\* The branch of deployment_statuses for a non-empty site list.
StatusesOfSites(details, errors, sites) ==
    LET ids == [i \in 1..Len(sites) |-> AsStr(sites[i].deployment)]
    IN  CollectInfos(FilterEqAny(LeftOuterJoin(details, errors), ids), sites, <<>>)

\* deployment_statuses(conn, sites)
deployment_statuses(details, errors, sites) ==
    IF Len(sites) = 0
    THEN StatusesOfAll(details, errors, sites)
    ELSE StatusesOfSites(details, errors, sites)

(***************************************************************************)
(* Deployment entities.                                                    *)
(***************************************************************************)
\* impl From<StoredSubgraphManifest> for SubgraphManifestEntity
ManifestFrom(value) ==
    [spec_version |-> value.spec_version, description |-> value.description,
     repository |-> value.repository, features |-> value.features, schema |-> value.schema]

\* status::EthereumBlock::to_ptr
ToPtr(b) == BlockPtrFrom(b.hash, b.number)

\* block(...)?.map(|block| block.to_ptr()) on an Ok outcome of block().
MapToPtr(r) == IF IsSome(OkVal(r)) THEN Some(ToPtr(Unwrap(OkVal(r)))) ELSE None

\* A graft base taken over without validation.
GraftBaseUnchecked(graft_base) ==
    IF IsNone(graft_base) THEN Ok(None) ELSE Ok(Some([hash |-> Unwrap(graft_base)]))

\* detail.graft_base.map(|b| DeploymentHash::new(b)).transpose()
\*     .map_err(|b| constraint_violation!("invalid graft base `{}`", b))
GraftBase(graft_base) ==
    IF IsNone(graft_base) THEN Ok(None)
    ELSE LET parsed == DeploymentHashNew(Unwrap(graft_base))
         IN  IF IsOk(parsed) THEN Ok(Some(OkVal(parsed)))
             ELSE Err(ConstraintViolation("invalid graft base", ErrVal(parsed), "graft_base"))

\* impl TryFrom<StoredDeploymentEntity> for SubgraphDeploymentEntity
EntityTryFrom(ent) ==
    LET detail == ent[1]
        manifest == ManifestFrom(ent[2])
        earliest_block == block(detail.deployment, "earliest_block",
                                detail.earliest_ethereum_block_hash,
                                detail.earliest_ethereum_block_number)
    IN  IF ~IsOk(earliest_block) THEN earliest_block
        ELSE
    LET latest_block == block(detail.deployment, "latest_block",
                              detail.latest_ethereum_block_hash,
                              detail.latest_ethereum_block_number)
    IN  IF ~IsOk(latest_block) THEN latest_block
        ELSE
    LET graft_block == block(detail.deployment, "graft_block",
                             detail.graft_block_hash, detail.graft_block_number)
    IN  IF ~IsOk(graft_block) THEN graft_block
        ELSE
    LET graft_base == GraftBase(detail.graft_base)
    IN  IF ~IsOk(graft_base) THEN graft_base
        ELSE Ok([manifest            |-> manifest,
                 failed              |-> detail.failed,
                 health              |-> HealthInto(detail.health),
                 synced              |-> detail.synced,
                 fatal_error         |-> None,
                 non_fatal_errors    |-> <<>>,
                 earliest_block      |-> MapToPtr(earliest_block),
                 latest_block        |-> MapToPtr(latest_block),
                 graft_base          |-> OkVal(graft_base),
                 graft_block         |-> MapToPtr(graft_block),
                 reorg_count         |-> detail.reorg_count,
                 current_reorg_depth |-> detail.current_reorg_depth,
                 max_reorg_depth     |-> detail.max_reorg_depth])

(***************************************************************************)
(* Build versions.  versionTable is the graph_node_versions table, whose   *)
(* constraint unique_graph_node_versions covers every column but id, and   *)
(* idSequence is the last value its id sequence has handed out.            *)
(***************************************************************************)
Fingerprint(commit, dirty) ==
    [git_commit_hash |-> commit, git_repository_dirty |-> dirty,
     crate_version |-> "0.22.0", major |-> 0, minor |-> 22, patch |-> 0,
     pre_release |-> "", rustc_version |-> "1.51.0",
     rustc_host |-> "x86_64-unknown-linux-gnu", rustc_channel |-> "Stable"]

RowFingerprint(row) ==
    [git_commit_hash |-> row.git_commit_hash, git_repository_dirty |-> row.git_repository_dirty,
     crate_version |-> row.crate_version, major |-> row.major, minor |-> row.minor,
     patch |-> row.patch, pre_release |-> row.pre_release, rustc_version |-> row.rustc_version,
     rustc_host |-> row.rustc_host, rustc_channel |-> row.rustc_channel]

VersionRow(id, fp) ==
    [id |-> id, git_commit_hash |-> fp.git_commit_hash,
     git_repository_dirty |-> fp.git_repository_dirty, crate_version |-> fp.crate_version,
     major |-> fp.major, minor |-> fp.minor, patch |-> fp.patch,
     pre_release |-> fp.pre_release, rustc_version |-> fp.rustc_version,
     rustc_host |-> fp.rustc_host, rustc_channel |-> fp.rustc_channel]

\* An insert without the on-conflict clause and without the constraint.
InsertVersion(table, seq, fp) ==
    [table |-> Append(table, VersionRow(seq + 1, fp)), seq |-> seq + 1, id |-> seq + 1]

\* insert_into(graph_node_versions).values(..).on_conflict(on_constraint(
\* "unique_graph_node_versions")).do_update().set(id.eq(id)).returning(id),
\* one statement: the row proposed for insertion draws the next id; on a
\* conflict the existing row is updated to itself and its id returned.
UpsertVersion(table, seq, fp) ==
    LET conflicts == {i \in 1..Len(table) : RowFingerprint(table[i]) = fp}
    IN  IF conflicts = {}
        THEN [table |-> Append(table, VersionRow(seq + 1, fp)), seq |-> seq + 1, id |-> seq + 1]
        ELSE [table |-> table, seq |-> seq + 1, id |-> table[CHOOSE i \in conflicts : TRUE].id]

(***************************************************************************)
(* Repository discovery.  A path is the sequence of its components below   *)
(* the root, <<>> being the root itself.                                   *)
(***************************************************************************)
\* starting_path.join(".git")
JoinGit(path) == path \o <<".git">>

\* A parent that climbs two levels at a time.
GrandParent(path) ==
    IF Len(path) = 0 THEN None ELSE Some(SubSeq(path, 1, IF Len(path) > 1 THEN Len(path) - 2 ELSE 0))

\* Path::parent: None for the root.
Parent(path) == IF Len(path) = 0 THEN None ELSE Some(SubSeq(path, 1, Len(path) - 1))

(***************************************************************************)
(* Each specification below exercises one operation; the state of the      *)
(* others is held idle.                                                    *)
(***************************************************************************)
BlockIdle   == hash = None /\ number = None /\ blockResult = NotCalled
ErrorIdle   == errorRow = None /\ errorResult = NotCalled
InfoIdle    == detailRow = None /\ attachedError = None /\ siteList = <<>> /\ infoResult = NotCalled
StatusIdle  == deploymentTable = <<>> /\ errorTable = <<>> /\ callSites = None /\ statuses = NotCalled
EntityIdle  == storedEntity = None /\ entityResult = NotCalled
VersionIdle == versionTable = <<>> /\ idSequence = 0 /\ callers = <<>>
GitIdle     == markers = {} /\ startPath = <<>> /\ walk = None

(***************************************************************************)
(* Inputs.                                                                 *)
(***************************************************************************)
MaxLimbs == 5
MaxScale == 1

\* Limb values that build the boundary magnitudes: 2^64 - 1 is four limbs
\* 65535, 2^64 is <<0, 0, 0, 0, 1>>, and <<65535, 65535, 65535, 65535, 9>>
\* is 10 * 2^64 - 1, the digits of 18446744073709551615.9.
LimbValues == {0, 1, 9, LimbBase - 1}

RECURSIVE LimbSeqsOfLen(_)
LimbSeqsOfLen(n) ==
    IF n = 0 THEN {<<>>}
    ELSE {s \o <<l>> : s \in LimbSeqsOfLen(n - 1), l \in LimbValues}

Bytes(n, b) == [i \in 1..n |-> b]
\* Raw hashes as stored: two of 32 bytes and one that is a byte too long.
HashBytes == {Bytes(H256Bytes, 170), Bytes(H256Bytes, 187), Bytes(H256Bytes + 1, 170)}
HashInputs == {None} \cup {Some(b) : b \in HashBytes}

Magnitudes == {s \in UNION {LimbSeqsOfLen(k) : k \in 0..MaxLimbs} : Normalize(s) = s}
Decimals ==
    {BigDecimal(neg, mag, scale) :
        neg \in BOOLEAN, mag \in Magnitudes, scale \in (0 - MaxScale)..MaxScale}
NumberInputs == {None} \cup {Some(d) : d \in {e \in Decimals : e.mag = <<>> => ~e.neg}}

(***************************************************************************)
(* SpecBlock: one call of block() on any pair of raw fields.               *)
(***************************************************************************)
BlockInit ==
    /\ hash \in HashInputs
    /\ number \in NumberInputs
    /\ blockResult = NotCalled
    /\ ErrorIdle /\ InfoIdle /\ StatusIdle /\ EntityIdle /\ VersionIdle /\ GitIdle

CallBlock ==
    /\ blockResult = NotCalled
    /\ blockResult' = block(Sg1, "latest_ethereum_block", hash, number)
    /\ UNCHANGED <<hash, number, errorVars, infoVars, statusVars, entityVars,
                   versionVars, gitVars>>

BlockNext == CallBlock
SpecBlock == BlockInit /\ [][BlockNext]_vars

(***************************************************************************)
(* Exact comparison of a decimal with an integer, used to state the claims *)
(* independently of the conversion: mag * 10^(-scale) against n is         *)
(* Lhs(d) = mag * 10^max(0, -scale) against Rhs(d, n) = n * 10^max(0, scale). *)
(***************************************************************************)
RECURSIVE MulPow10(_, _)
MulPow10(s, k) == IF k <= 0 THEN s ELSE MulPow10(MulSmall(s, 10, 0), k - 1)

Lhs(d) == MulPow10(d.mag, 0 - d.scale)
Rhs(d, n) == MulPow10(n, d.scale)
Succ(n) == MulSmall(n, 1, 1)
TwoTo64 == Succ(U64Max)

DecimalLeq(d, n)  == d.neg \/ LimbsLeq(Lhs(d), Rhs(d, n))
DecimalIs(d, n)   == ~d.neg /\ Lhs(d) = Rhs(d, n)
\* n is the integer part of the non-negative decimal d.
IntegerPartIs(d, n) ==
    ~d.neg /\ LimbsLeq(Rhs(d, n), Lhs(d)) /\ LimbsLess(Lhs(d), Rhs(d, Succ(n)))

BlockCalled == blockResult # NotCalled
IsViolation(r) == IsErr(r) /\ ErrVal(r).variant = "ConstraintViolation"
IsPointer(r) == IsOk(r) /\ IsSome(OkVal(r))
Pointer(r) == Unwrap(OkVal(r))

\* C1 as stated: both absent gives Ok(absent); both present with number
\* <= 2^64 - 1 gives a present pointer carrying exactly that hash and that
\* number; exactly one present gives a ConstraintViolation; both present
\* with number > 2^64 - 1 gives a ConstraintViolation.
C1_AsStated ==
    BlockCalled =>
        /\ (IsNone(hash) /\ IsNone(number)) => blockResult = Ok(None)
        /\ (IsSome(hash) /\ IsSome(number) /\ DecimalLeq(Unwrap(number), U64Max)) =>
               /\ IsPointer(blockResult)
               /\ Pointer(blockResult).hash.h256 = Unwrap(hash)
               /\ DecimalIs(Unwrap(number), Pointer(blockResult).number)
        /\ (IsSome(hash) # IsSome(number)) => IsViolation(blockResult)
        /\ (IsSome(hash) /\ IsSome(number) /\ ~DecimalLeq(Unwrap(number), U64Max)) =>
               IsViolation(blockResult)

\* C1 (amended): block() on every (hash, number) pair: both absent gives
\* Ok(absent); exactly one present gives a ConstraintViolation; both present
\* with a hash that is not 32 bytes long panics; both present with a 32-byte
\* hash and a number >= 0 whose integer part is <= 2^64 - 1 gives a present
\* pointer carrying exactly that hash and the integer part of the number
\* (the number itself when it is an integer); both present with a 32-byte
\* hash and a number that is negative or whose integer part is > 2^64 - 1
\* gives a ConstraintViolation.
C1_Block ==
    BlockCalled =>
        /\ (IsNone(hash) /\ IsNone(number)) => blockResult = Ok(None)
        /\ (IsSome(hash) # IsSome(number)) => IsViolation(blockResult)
        /\ (IsSome(hash) /\ IsSome(number)) =>
               LET d == Unwrap(number)
               IN  /\ Len(Unwrap(hash)) # H256Bytes => IsPanic(blockResult)
                   /\ (Len(Unwrap(hash)) = H256Bytes /\ ~d.neg /\ LimbsLess(Lhs(d), Rhs(d, TwoTo64))) =>
                          /\ IsPointer(blockResult)
                          /\ Pointer(blockResult).hash.h256 = Unwrap(hash)
                          /\ IntegerPartIs(d, Pointer(blockResult).number)
                          /\ (d.scale <= 0 => DecimalIs(d, Pointer(blockResult).number))
                   /\ (Len(Unwrap(hash)) = H256Bytes /\ (d.neg \/ ~LimbsLess(Lhs(d), Rhs(d, TwoTo64)))) =>
                          IsViolation(blockResult)

\* C1 witness: a 32-byte hash with the number 2^64 - 1 yields a pointer
\* carrying 2^64 - 1.
C1_Witness ==
    /\ IsPointer(blockResult)
    /\ IsSome(number) /\ Unwrap(number) = BigDecimal(FALSE, U64Max, 0)
    /\ Pointer(blockResult).number = U64Max

(***************************************************************************)
(* SpecError: one conversion of an error row.                              *)
(***************************************************************************)

I32Min == (0 - 2147483647) - 1
I32Max == 2147483647
LowerBounds == {I32Min, 0 - 1, 0, 1, 100, LimbBase, I32Max}
\* UNVERSIONED_RANGE and the ranges [n, ) and [n, n + 7) as Postgres hands
\* them out (a lower bound is inclusive or missing).
UnversionedRange == <<Unbounded, Unbounded>>
BlockRanges ==
    {UnversionedRange}
        \cup {<<Included(n), Unbounded>> : n \in LowerBounds}
        \cup {<<Included(n), Excluded(n + 7)>> : n \in LowerBounds \ {I32Max}}

ErrorRows(ids, hashes, ranges) ==
    {[vid |-> 1, id |-> id, subgraph_id |-> sg, message |-> "boom", block_hash |-> h,
      handler |-> hd, deterministic |-> det, block_range |-> r] :
        id \in ids, sg \in {Sg1} \cup Malformed, h \in hashes,
        hd \in {None, Some("handleTransfer")}, det \in BOOLEAN, r \in ranges}

ErrorInit ==
    /\ errorRow \in {Some(e) : e \in ErrorRows({"e1"}, HashInputs, BlockRanges)}
    /\ errorResult = NotCalled
    /\ BlockIdle /\ InfoIdle /\ StatusIdle /\ EntityIdle /\ VersionIdle /\ GitIdle

ConvertError ==
    /\ errorResult = NotCalled
    /\ errorResult' = SubgraphErrorTryFrom(Unwrap(errorRow))
    /\ UNCHANGED <<errorRow, blockVars, infoVars, statusVars, entityVars, versionVars, gitVars>>

ErrorNext == ConvertError
SpecError == ErrorInit /\ [][ErrorNext]_vars

\* The limbs of a non-negative i32.
NatLimbs(n) == Normalize(<<n % LimbBase, n \div LimbBase>>)

\* C5 as stated: with a valid deployment key, a row with a concrete lower
\* bound (any i32) and a hash yields a present pointer whose number equals
\* the lower bound; a row with the unversioned range yields an absent
\* pointer whether or not a hash is present; a row with a lower bound and no
\* hash yields an absent pointer and no failure.
C5_AsStated ==
    (errorResult # NotCalled /\ DeploymentHashValid(Unwrap(errorRow).subgraph_id)) =>
        LET row == Unwrap(errorRow)
            lower == row.block_range[1]
        IN  /\ (lower.bound = "Included" /\ IsSome(row.block_hash)) =>
                   /\ IsOk(errorResult)
                   /\ IsSome(OkVal(errorResult).block_ptr)
                   /\ lower.at[1] >= 0
                   /\ Unwrap(OkVal(errorResult).block_ptr).number = NatLimbs(lower.at[1])
            /\ row.block_range = UnversionedRange =>
                   IsOk(errorResult) /\ IsNone(OkVal(errorResult).block_ptr)
            /\ (lower.bound = "Included" /\ IsNone(row.block_hash)) =>
                   IsOk(errorResult) /\ IsNone(OkVal(errorResult).block_ptr)

\* C5 (amended): with a valid deployment key, a row with a concrete lower
\* bound that is not negative and a 32-byte hash yields a present pointer
\* with that hash whose number equals the lower bound; a row with the
\* unversioned range yields an absent pointer whether the hash is absent or
\* a 32-byte hash is present; a row with a lower bound and no hash yields an
\* absent pointer and no failure; and a row whose hash is present but not 32
\* bytes long makes the conversion panic.
C5_ErrorPointer ==
    (errorResult # NotCalled /\ DeploymentHashValid(Unwrap(errorRow).subgraph_id)) =>
        LET row == Unwrap(errorRow)
            lower == row.block_range[1]
            wellFormed == IsSome(row.block_hash) /\ Len(Unwrap(row.block_hash)) = H256Bytes
        IN  /\ (IsSome(row.block_hash) /\ ~wellFormed) => IsPanic(errorResult)
            /\ (lower.bound = "Included" /\ lower.at[1] >= 0 /\ wellFormed) =>
                   /\ IsOk(errorResult)
                   /\ IsSome(OkVal(errorResult).block_ptr)
                   /\ Unwrap(OkVal(errorResult).block_ptr).number = NatLimbs(lower.at[1])
                   /\ Unwrap(OkVal(errorResult).block_ptr).hash.h256 = Unwrap(row.block_hash)
            /\ (row.block_range = UnversionedRange /\ (wellFormed \/ IsNone(row.block_hash))) =>
                   IsOk(errorResult) /\ IsNone(OkVal(errorResult).block_ptr)
            /\ (lower.bound = "Included" /\ IsNone(row.block_hash)) =>
                   IsOk(errorResult) /\ IsNone(OkVal(errorResult).block_ptr)

\* C5 witness: a legacy row with the unversioned range and a 32-byte hash is
\* converted to an error without block pointer.
C5_Witness ==
    /\ IsOk(errorResult)
    /\ Unwrap(errorRow).block_range = UnversionedRange
    /\ IsSome(Unwrap(errorRow).block_hash)
    /\ IsNone(OkVal(errorResult).block_ptr)

(***************************************************************************)
(* SpecInfo: one status assembly of a deployment row, an optional error    *)
(* row and a site list.                                                    *)
(***************************************************************************)
MaxSites == 2

Dec(n) == BigDecimal(FALSE, NatLimbs(n), 0)
MinusOne == BigDecimal(TRUE, <<1>>, 0)
\* Stored block fields: absent, a block, and values block() must refuse.
StoredHashes == {None, Some(Bytes(H256Bytes, 170)), Some(Bytes(H256Bytes + 1, 170))}
StoredNumbers == {None, Some(Dec(100)), Some(BigDecimal(FALSE, TwoTo64, 0))}
EntityCounts == {Dec(42), BigDecimal(FALSE, U64Max, 0), MinusOne}

DetailRow(key, eh, en, lh, ln, count, fatal, graft, gh, gn, health, synced) ==
    [id |-> (IF key = Sg1 THEN 1 ELSE IF key = Sg2 THEN 2 ELSE 3), deployment |-> key, failed |-> health = "Failed", health |-> health,
     synced |-> synced, fatal_error |-> fatal, non_fatal_errors |-> <<>>,
     earliest_ethereum_block_hash |-> eh, earliest_ethereum_block_number |-> en,
     latest_ethereum_block_hash |-> lh, latest_ethereum_block_number |-> ln,
     last_healthy_ethereum_block_hash |-> None, last_healthy_ethereum_block_number |-> None,
     entity_count |-> count, graft_base |-> graft,
     graft_block_hash |-> gh, graft_block_number |-> gn,
     reorg_count |-> 0, current_reorg_depth |-> 0, max_reorg_depth |-> 0]

Site(key, network) == [deployment |-> [hash |-> key], network |-> network]
Sites == {Site(Sg1, "mainnet"), Site(Sg2, "ropsten")}

RECURSIVE SeqsUpTo(_, _)
SeqsUpTo(S, n) ==
    IF n = 0 THEN {<<>>}
    ELSE LET shorter == SeqsUpTo(S, n - 1)
         IN  shorter \cup {s \o <<x>> : s \in {t \in shorter : Len(t) = n - 1}, x \in S}

SiteLists == SeqsUpTo(Sites, MaxSites)

InfoDetails ==
    {DetailRow(key, eh, en, lh, ln, count, None, None, None, None, health, TRUE) :
        key \in {Sg1, Sg2, Sg3}, eh \in StoredHashes, en \in StoredNumbers,
        lh \in StoredHashes, ln \in StoredNumbers, count \in EntityCounts,
        health \in {"Failed", "Healthy", "Unhealthy"}}

InfoErrors ==
    {None} \cup {Some(e) : e \in ErrorRows({"e1"}, {Some(Bytes(H256Bytes, 170))},
                                           {<<Included(100), Unbounded>>})}

InfoInit ==
    /\ detailRow \in {Some(d) : d \in InfoDetails}
    /\ attachedError \in InfoErrors
    /\ siteList \in SiteLists
    /\ infoResult = NotCalled
    /\ BlockIdle /\ ErrorIdle /\ StatusIdle /\ EntityIdle /\ VersionIdle /\ GitIdle

AssembleInfo ==
    /\ infoResult = NotCalled
    /\ infoResult' = InfoTryFrom(Unwrap(detailRow), attachedError, siteList)
    /\ UNCHANGED <<detailRow, attachedError, siteList, blockVars, errorVars, statusVars,
                   entityVars, versionVars, gitVars>>

InfoNext == AssembleInfo
SpecInfo == InfoInit /\ [][InfoNext]_vars

SiteKeys(sites) == {AsStr(sites[i].deployment) : i \in 1..Len(sites)}

\* C3: status assembly of a row whose deployment key is the key of no Site
\* of a non-empty site list fails with the ConstraintViolation "missing site
\* for subgraph" naming that key, whatever the row's other fields are.
C3_MissingSite ==
    (infoResult # NotCalled /\ siteList # <<>>
        /\ Unwrap(detailRow).deployment \notin SiteKeys(siteList)) =>
        infoResult = Err(MissingSite(Unwrap(detailRow).deployment))

\* C3 witness: a row that no site covers and whose block fields and entity
\* count are all unusable is refused for the missing site.
C3_Witness ==
    /\ IsViolation(infoResult) /\ ErrVal(infoResult).msg = "missing site for subgraph"
    /\ siteList # <<>>
    /\ IsSome(Unwrap(detailRow).earliest_ethereum_block_hash)
    /\ IsNone(Unwrap(detailRow).earliest_ethereum_block_number)
    /\ IsSome(Unwrap(detailRow).latest_ethereum_block_hash)
    /\ Len(Unwrap(Unwrap(detailRow).latest_ethereum_block_hash)) # H256Bytes
    /\ Unwrap(detailRow).entity_count = MinusOne
    /\ IsSome(attachedError) /\ ~DeploymentHashValid(Unwrap(attachedError).subgraph_id)

(***************************************************************************)
(* SpecStatus: deployment_statuses against a storage content.  Deployment  *)
(* keys and error ids are unique in storage (one row per deployment, one   *)
(* row per recorded error).                                                *)
(***************************************************************************)
MaxRows == 2

StatusDetails ==
    {DetailRow(key, None, None, l[1], l[2], Dec(42), fatal, None, None, None, "Healthy", TRUE) :
        key \in {Sg1, Sg2, Sg3},
        l \in {<<None, None>>,
               <<Some(Bytes(H256Bytes, 170)), Some(Dec(100))>>,
               <<Some(Bytes(H256Bytes, 170)), None>>,
               <<Some(Bytes(H256Bytes + 1, 170)), Some(Dec(100))>>},
        fatal \in {None, Some("e1"), Some("e2")}}

DistinctKeys(rows) ==
    \A i, j \in 1..Len(rows) : rows[i].deployment = rows[j].deployment => i = j

DeploymentTables == {t \in SeqsUpTo(StatusDetails, MaxRows) : DistinctKeys(t)}

\* The error row "e1" when stored: well formed, or with a deployment key
\* DeploymentHash::new rejects.  No row has the id "e2".
ErrorTables ==
    {<<>>} \cup {<<[vid |-> 1, id |-> "e1", subgraph_id |-> sg, message |-> "boom",
                    block_hash |-> Some(Bytes(H256Bytes, 187)), handler |-> None,
                    deterministic |-> TRUE, block_range |-> <<Included(100), Unbounded>>]>> :
                 sg \in {Sg1, <<>>}}

StatusInit ==
    /\ deploymentTable \in DeploymentTables
    /\ errorTable \in ErrorTables
    /\ callSites = None
    /\ statuses = NotCalled
    /\ BlockIdle /\ ErrorIdle /\ InfoIdle /\ EntityIdle /\ VersionIdle /\ GitIdle

CallDeploymentStatuses ==
    /\ statuses = NotCalled
    /\ \E sites \in SiteLists :
        /\ callSites' = Some(sites)
        /\ statuses' = deployment_statuses(deploymentTable, errorTable, sites)
    /\ UNCHANGED <<deploymentTable, errorTable, blockVars, errorVars, infoVars,
                   entityVars, versionVars, gitVars>>

StatusNext == CallDeploymentStatuses
SpecStatus == StatusInit /\ [][StatusNext]_vars

StatusCalled == statuses # NotCalled
IsMissingSite(r) == IsViolation(r) /\ ErrVal(r).msg = "missing site for subgraph"

ReturnedRows ==
    LET sites == Unwrap(callSites)
        joined == LeftOuterJoin(deploymentTable, errorTable)
    IN  IF sites = <<>> THEN joined
        ELSE FilterEqAny(joined, [i \in 1..Len(sites) |-> AsStr(sites[i].deployment)])
Assembled(i) == InfoTryFrom(ReturnedRows[i].detail, ReturnedRows[i].error, Unwrap(callSites))
FailingRows == {i \in 1..Len(ReturnedRows) : ~IsOk(Assembled(i))}
FirstFailingRow == CHOOSE i \in FailingRows : \A j \in FailingRows : i <= j

\* C7 as stated: when assembly fails for a returned row, the call returns
\* an error, which is the failure of the first failing row in row order,
\* and no status; it returns statuses only when every row assembles.
C7_AsStated ==
    StatusCalled =>
        /\ FailingRows # {} =>
               IsErr(statuses) /\ statuses = Assembled(FirstFailingRow)
        /\ IsOk(statuses) => FailingRows = {}

\* The stored rows the site list covers.
MatchedRows == {i \in 1..Len(deploymentTable) :
                    deploymentTable[i].deployment \in SiteKeys(Unwrap(callSites))}
\* The stored error row a deployment row refers to, if there is one.
Referenced(d) == {j \in 1..Len(errorTable) :
                    IsSome(d.fatal_error) /\ errorTable[j].id = Unwrap(d.fatal_error)}

\* C8: a successful fetch-statuses for a non-empty site list returns
\* exactly one status per stored deployment whose key is in the site list
\* and none for any other: with the fatal error absent when the deployment
\* has no reference or the reference resolves to no error row, and carrying
\* the referenced error when it resolves.
C8_OnePerDeployment ==
    (StatusCalled /\ Unwrap(callSites) # <<>> /\ IsOk(statuses)) =>
        LET infos == OkVal(statuses)
        IN  /\ Len(infos) = Cardinality(MatchedRows)
            /\ \A i \in 1..Len(infos) :
                   \E r \in MatchedRows : deploymentTable[r].deployment = infos[i].subgraph
            /\ \A r \in MatchedRows :
                   LET d == deploymentTable[r]
                       mine == {i \in 1..Len(infos) : infos[i].subgraph = d.deployment}
                   IN  /\ Cardinality(mine) = 1
                       /\ \A i \in mine :
                              /\ Referenced(d) = {} => infos[i].fatal_error = None
                              /\ \A j \in Referenced(d) :
                                     /\ IsSome(infos[i].fatal_error)
                                     /\ Unwrap(infos[i].fatal_error).message = errorTable[j].message
                                     /\ AsStr(Unwrap(infos[i].fatal_error).subgraph_id) = errorTable[j].subgraph_id

\* C8 witness: two deployments are covered, one refers to a stored error row
\* and one to an error row that does not exist, and the call returns two
\* statuses.
C8_Witness ==
    /\ StatusCalled /\ IsOk(statuses) /\ Len(OkVal(statuses)) = 2
    /\ Len(errorTable) = 1
    /\ \E r \in 1..Len(deploymentTable) : deploymentTable[r].fatal_error = Some("e1")
    /\ \E r \in 1..Len(deploymentTable) : deploymentTable[r].fatal_error = Some("e2")

\* C10: fetch-statuses with a non-empty site list never fails for a missing
\* site: every row the query returns has the key of a Site of the list, so
\* a missing-site failure comes from an empty site list only.
C10_NoMissingSite ==
    StatusCalled =>
        /\ Unwrap(callSites) # <<>> =>
               \A i \in 1..Len(ReturnedRows) :
                   ReturnedRows[i].detail.deployment \in SiteKeys(Unwrap(callSites))
        /\ IsMissingSite(statuses) => Unwrap(callSites) = <<>>

\* C10 witness: storage holds a deployment that the non-empty site list
\* does not cover, and the call succeeds with the statuses of the others.
C10_Witness ==
    /\ StatusCalled /\ Unwrap(callSites) # <<>> /\ IsOk(statuses)
    /\ Len(OkVal(statuses)) = 1
    /\ \E r \in 1..Len(deploymentTable) :
           deploymentTable[r].deployment \notin SiteKeys(Unwrap(callSites))

(***************************************************************************)
(* SpecEntity: one reconstruction of a deployment entity from its stored   *)
(* deployment row and manifest row.                                        *)
(***************************************************************************)
StoredManifest ==
    [id |-> 1, spec_version |-> "0.0.4", description |-> None, repository |-> None,
     features |-> <<>>, schema |-> "type T @entity { id: ID! }", graph_node_version_id |-> 1]

\* Stored (hash, number) pairs of a block pointer.
StoredBlocks == {<<h, n>> : h \in StoredHashes, n \in StoredNumbers \cup {Some(MinusOne)}}
GraftBases == {None, Some(Sg2), Some(<<"Q", "m", "_", "1">>)} \cup {Some(m) : m \in Malformed}

EntityDetails ==
    {DetailRow(Sg1, e[1], e[2], l[1], l[2], Dec(42), None, graft, g[1], g[2], "Healthy", TRUE) :
        e \in StoredBlocks, l \in StoredBlocks, g \in StoredBlocks, graft \in GraftBases}

EntityInit ==
    /\ storedEntity \in {Some(<<d, StoredManifest>>) : d \in EntityDetails}
    /\ entityResult = NotCalled
    /\ BlockIdle /\ ErrorIdle /\ InfoIdle /\ StatusIdle /\ VersionIdle /\ GitIdle

ReconstructEntity ==
    /\ entityResult = NotCalled
    /\ entityResult' = EntityTryFrom(Unwrap(storedEntity))
    /\ UNCHANGED <<storedEntity, blockVars, errorVars, infoVars, statusVars, versionVars, gitVars>>

EntityNext == ReconstructEntity
SpecEntity == EntityInit /\ [][EntityNext]_vars

JointlyPresentOrAbsent(h, n) == IsSome(h) = IsSome(n)
BlockFieldsJoint(d) ==
    /\ JointlyPresentOrAbsent(d.earliest_ethereum_block_hash, d.earliest_ethereum_block_number)
    /\ JointlyPresentOrAbsent(d.latest_ethereum_block_hash, d.latest_ethereum_block_number)
    /\ JointlyPresentOrAbsent(d.graft_block_hash, d.graft_block_number)

\* The pair is absent, or a 32-byte hash with a number from 0 to 2^64 - 1
\* (by its integer part).
UsableBlock(h, n) ==
    /\ IsSome(h) = IsSome(n)
    /\ IsSome(h) =>
           /\ Len(Unwrap(h)) = H256Bytes
           /\ ~Unwrap(n).neg
           /\ LimbsLess(Lhs(Unwrap(n)), Rhs(Unwrap(n), TwoTo64))
BlockFieldsUsable(d) ==
    /\ UsableBlock(d.earliest_ethereum_block_hash, d.earliest_ethereum_block_number)
    /\ UsableBlock(d.latest_ethereum_block_hash, d.latest_ethereum_block_number)
    /\ UsableBlock(d.graft_block_hash, d.graft_block_number)

EntityCalled == entityResult # NotCalled
StoredDetail == Unwrap(storedEntity)[1]
GraftOutcome(d) ==
    /\ (IsSome(d.graft_base) /\ ~DeploymentHashValid(Unwrap(d.graft_base))) =>
           /\ IsViolation(entityResult)
           /\ ErrVal(entityResult).msg = "invalid graft base"
           /\ ErrVal(entityResult).subject = Unwrap(d.graft_base)
    /\ (IsSome(d.graft_base) /\ DeploymentHashValid(Unwrap(d.graft_base))) =>
           /\ IsOk(entityResult)
           /\ IsSome(OkVal(entityResult).graft_base)
           /\ AsStr(Unwrap(OkVal(entityResult).graft_base)) = Unwrap(d.graft_base)
    /\ IsNone(d.graft_base) =>
           IsOk(entityResult) /\ IsNone(OkVal(entityResult).graft_base)

\* C6 as stated: on a row whose earliest, latest and graft block fields are
\* each jointly present or jointly absent, an empty or malformed graft base
\* fails with the ConstraintViolation "invalid graft base", a well-formed
\* one is the graft base of the produced entity unchanged, and an absent
\* one yields an entity without graft base and no failure.
C6_AsStated ==
    (EntityCalled /\ BlockFieldsJoint(StoredDetail)) => GraftOutcome(StoredDetail)

\* C6 (amended): the same, on a row whose earliest, latest and graft block
\* fields are each jointly absent, or jointly present with a 32-byte hash
\* and a number that is not negative and whose integer part is at most
\* 2^64 - 1.
C6_GraftBase ==
    (EntityCalled /\ BlockFieldsUsable(StoredDetail)) => GraftOutcome(StoredDetail)

\* C6 witness: a row with all three blocks present and a well-formed graft
\* base is reconstructed with that graft base.
C6_Witness ==
    /\ IsOk(entityResult)
    /\ IsSome(OkVal(entityResult).earliest_block)
    /\ IsSome(OkVal(entityResult).latest_block)
    /\ IsSome(OkVal(entityResult).graft_block)
    /\ OkVal(entityResult).graft_base = Some([hash |-> Sg2])

(***************************************************************************)
(* SpecVersion: processes starting up, each calling create_or_get once,    *)
(* on one database.                                                        *)
(***************************************************************************)
MaxCallers == 3

Fingerprints == {Fingerprint(c, d) : c \in {"c0ffee", "decade"}, d \in BOOLEAN}
Callers == 1..MaxCallers

VersionInit ==
    /\ versionTable = <<>>
    /\ idSequence = 0
    /\ callers = [p \in Callers |-> [pc |-> "start", fingerprint |-> None, ret |-> NotCalled]]
    /\ BlockIdle /\ ErrorIdle /\ InfoIdle /\ StatusIdle /\ EntityIdle /\ GitIdle

othersOfVersion == <<blockVars, errorVars, infoVars, statusVars, entityVars, gitVars>>

\* Lines 395-409: the repository, its last commit, its dirty flag and the
\* compiler's identity are read; the build they describe is the process's own.
DetectBuild(p) ==
    /\ callers[p].pc = "start"
    /\ \E fp \in Fingerprints :
           callers' = [callers EXCEPT ![p] = [@ EXCEPT !.pc = "upsert", !.fingerprint = Some(fp)]]
    /\ UNCHANGED <<versionTable, idSequence, othersOfVersion>>

\* Any of the `?` of lines 395-403 fails: no repository, no commit, no compiler metadata.
DetectFails(p) ==
    /\ callers[p].pc = "start"
    /\ callers' = [callers EXCEPT ![p] = [@ EXCEPT !.pc = "done",
                                                   !.ret = Err("fatal initialization error")]]
    /\ UNCHANGED <<versionTable, idSequence, othersOfVersion>>

\* Lines 412-436: the upsert statement and the return of its id.
Upsert(p) ==
    /\ callers[p].pc = "upsert"
    /\ LET done == UpsertVersion(versionTable, idSequence, Unwrap(callers[p].fingerprint))
       IN  /\ versionTable' = done.table
           /\ idSequence' = done.seq
           /\ callers' = [callers EXCEPT ![p] = [@ EXCEPT !.pc = "done", !.ret = Ok(done.id)]]
    /\ UNCHANGED othersOfVersion

VersionNext == \E p \in Callers : DetectBuild(p) \/ DetectFails(p) \/ Upsert(p)
SpecVersion == VersionInit /\ [][VersionNext]_vars

Returned == {p \in Callers : callers[p].pc = "done" /\ IsOk(callers[p].ret)}
Registered == {Unwrap(callers[p].fingerprint) : p \in Returned}

\* C2: under every interleaving of create_or_get calls, the table holds
\* exactly one row per registered fingerprint (and no two rows share an
\* id), every completed call returns the id of the row holding its own
\* fingerprint, and so two completed calls return the same id exactly when
\* their fingerprints are the same.
C2_OneRowPerFingerprint ==
    /\ \A i, j \in 1..Len(versionTable) :
           (RowFingerprint(versionTable[i]) = RowFingerprint(versionTable[j])
               \/ versionTable[i].id = versionTable[j].id) => i = j
    /\ {RowFingerprint(versionTable[i]) : i \in 1..Len(versionTable)} = Registered
    /\ \A p \in Returned :
           \E i \in 1..Len(versionTable) :
               /\ versionTable[i].id = OkVal(callers[p].ret)
               /\ RowFingerprint(versionTable[i]) = Unwrap(callers[p].fingerprint)
    /\ \A p, q \in Returned :
           (OkVal(callers[p].ret) = OkVal(callers[q].ret))
               <=> (callers[p].fingerprint = callers[q].fingerprint)

\* C2 witness: two calls raced with the same fingerprint and got the same
\* id, a third with the dirty flag flipped got another, and the table holds
\* two rows.
C2_Witness ==
    /\ Returned = Callers
    /\ Len(versionTable) = 2
    /\ \E p, q, r \in Callers :
           /\ p # q
           /\ callers[p].fingerprint = callers[q].fingerprint
           /\ OkVal(callers[p].ret) = OkVal(callers[q].ret)
           /\ Unwrap(callers[r].fingerprint).git_commit_hash = Unwrap(callers[p].fingerprint).git_commit_hash
           /\ Unwrap(callers[r].fingerprint).git_repository_dirty # Unwrap(callers[p].fingerprint).git_repository_dirty
           /\ OkVal(callers[r].ret) # OkVal(callers[p].ret)

(***************************************************************************)
(* SpecGit: find_git_repository_path from an absolute starting directory,  *)
(* one step per call of the recursion and one per return.  markers is the  *)
(* set of ".git" paths that exist.                                         *)
(***************************************************************************)
MaxDepth == 2
MaxMarkers == 2

Components == {"home", "graph"}
Directories == SeqsUpTo(Components, MaxDepth)
MarkerSets == {m \in SUBSET {JoinGit(d) : d \in Directories} : Cardinality(m) <= MaxMarkers}

GitInit ==
    /\ markers \in MarkerSets
    /\ startPath \in Directories
    /\ walk = Some([pc |-> "call", at |-> startPath, visited |-> <<>>, frames |-> 0,
                    result |-> NotCalled])
    /\ BlockIdle /\ ErrorIdle /\ InfoIdle /\ StatusIdle /\ EntityIdle /\ VersionIdle

othersOfGit == <<blockVars, errorVars, infoVars, statusVars, entityVars, versionVars>>
Walk == Unwrap(walk)

\* Lines 442-444: the marker exists in the directory of this call.
Found ==
    /\ Walk.pc = "call"
    /\ JoinGit(Walk.at) \in markers
    /\ walk' = Some([Walk EXCEPT !.pc = "return", !.visited = Append(@, Walk.at),
                                 !.result = Ok(JoinGit(Walk.at))])
    /\ UNCHANGED <<markers, startPath, othersOfGit>>

\* Lines 446-447: no marker here, and the call recurses into the parent.
Ascend ==
    /\ Walk.pc = "call"
    /\ JoinGit(Walk.at) \notin markers
    /\ IsSome(Parent(Walk.at))
    /\ walk' = Some([Walk EXCEPT !.at = Unwrap(Parent(Walk.at)), !.visited = Append(@, Walk.at),
                                 !.frames = @ + 1])
    /\ UNCHANGED <<markers, startPath, othersOfGit>>

\* Lines 448-449: no marker here and no parent.
GiveUp ==
    /\ Walk.pc = "call"
    /\ JoinGit(Walk.at) \notin markers
    /\ IsNone(Parent(Walk.at))
    /\ walk' = Some([Walk EXCEPT !.pc = "return", !.visited = Append(@, Walk.at),
                                 !.result = Err("Could not find a git repository.")])
    /\ UNCHANGED <<markers, startPath, othersOfGit>>

\* A call hands the result of the call it made to its own caller.
Return ==
    /\ Walk.pc = "return"
    /\ walk' = Some(IF Walk.frames = 0 THEN [Walk EXCEPT !.pc = "done"]
                    ELSE [Walk EXCEPT !.frames = @ - 1])
    /\ UNCHANGED <<markers, startPath, othersOfGit>>

GitNext == Found \/ Ascend \/ GiveUp \/ Return
SpecGit == GitInit /\ [][GitNext]_vars /\ WF_vars(GitNext)

\* The directories from the starting one up to the root, nearest first.
Chain == [k \in 1..(Len(startPath) + 1) |-> SubSeq(startPath, 1, Len(startPath) + 1 - k)]
WithMarker == {k \in 1..Len(Chain) : JoinGit(Chain[k]) \in markers}
Nearest == CHOOSE k \in WithMarker : \A j \in WithMarker : k <= j

GitDone == Walk.pc = "done"
\* What has been visited is the chain walked in order, and nothing above a
\* directory that holds the marker.
VisitedInOrder ==
    /\ Len(Walk.visited) <= Len(Chain)
    /\ \A k \in 1..Len(Walk.visited) : Walk.visited[k] = Chain[k]
    /\ \A k \in 1..Len(Walk.visited) : \A j \in WithMarker : k <= j
GitOutcome ==
    GitDone =>
        /\ WithMarker # {} =>
               /\ Walk.result = Ok(JoinGit(Chain[Nearest]))
               /\ Len(Walk.visited) = Nearest
        /\ WithMarker = {} =>
               /\ Walk.result = Err("Could not find a git repository.")
               /\ Len(Walk.visited) = Len(Chain)
        /\ IsErr(Walk.result) => WithMarker = {}

\* C9: repository discovery terminates from every starting directory; it
\* visits the starting directory and then each successive parent, returns
\* the marker path of the nearest directory that holds the marker, returns
\* the error "Could not find a git repository." exactly when no directory up
\* to and including the root holds it, and never visits a directory above
\* one that holds the marker.
C9_Discovery == <>GitDone /\ [](VisitedInOrder /\ GitOutcome)

\* C9 witness: the walk started two levels below the root, the root and
\* the directory between hold the marker, and the walk returned the marker
\* of the directory between after two visits.
C9_Witness ==
    /\ IsSome(walk) /\ GitDone
    /\ Len(startPath) = 2
    /\ markers = {JoinGit(<<>>), JoinGit(SubSeq(startPath, 1, 1))}
    /\ Walk.result = Ok(JoinGit(SubSeq(startPath, 1, 1)))
    /\ Walk.visited = <<startPath, SubSeq(startPath, 1, 1)>>

====
